---- MODULE Spec2Model ----
(***************************************************************************)
(* Task advisor: deterministic scoring / greedy shortlist / plan payload   *)
(* (src/src/main.py), the Normalizer and Refiner collaborators             *)
(* (src/src/parse_tasks_agent.py, src/src/plan_explainer_agent.py) and the *)
(* orchestrator run_task_advisor (src/src/task_advisor.py).                *)
(*                                                                         *)
(* Representation.                                                         *)
(*  - A Python value that may be None, a list or a dict is a tagged        *)
(*    record: None, List(s), Dict(k).                                      *)
(*  - A task dict is a TLA+ record (a function on its keys).               *)
(*  - score is a float that is always a multiple of 0.5 here; it is kept   *)
(*    in units of 0.5 (29 stands for 14.5), which is exact.                *)
(*  - A collaborator's response text is a sequence of tokens:              *)
(*      "F"  the three backticks of a Markdown fence                       *)
(*      "NL" a newline (the only whitespace)                               *)
(*      "X"  text that is not JSON (a word such as json, or prose)         *)
(*      "JA" a complete JSON array, "JO" a complete JSON object            *)
(***************************************************************************)
EXTENDS Integers, Sequences, FiniteSets, TLC

VARIABLES
    pc,                 \* position of the caller / of run_task_advisor
    callerTasks,        \* the caller's task list object (None when not passed)
    callerOrig,         \* history: the caller's list as it was when the call began
    raw_tasks_str,      \* argument raw_tasks_str
    available_minutes,  \* argument available_minutes
    energy_level,       \* argument energy_level
    SAMPLE_TASKS,       \* module-level list of main.py
    tasks,              \* local `tasks` of run_task_advisor after resolution
    tasksSrc,           \* which object `tasks` aliases: "arg", "normalizer", "default"
    scored,             \* local `scored` / argument scored_tasks
    shortlist,          \* local `shortlist`
    remaining,          \* local `remaining` of choose_shortlist
    idx,                \* position of the for loop of choose_shortlist
    suggested,          \* argument suggested_shortlist of assemble_plan_data
    plan_data,          \* local `plan_data`
    plan_json,          \* local `plan_json`
    result,             \* value returned to the caller
    error,              \* exception that ended the run ("" when none)
    response,           \* collaborator response in flight
    normCalls,          \* history: Normalizer requests sent in this run
    refinerCalls,       \* history: Refiner requests sent in this run
    stageLog,           \* history: stages entered in this run, in order
    client,             \* module-level _client of plan_explainer_agent.py
    apiKey              \* whether GOOGLE_API_KEY is set in the environment

vars == <<pc, callerTasks, callerOrig, raw_tasks_str, available_minutes,
          energy_level, SAMPLE_TASKS, tasks, tasksSrc, scored, shortlist,
          remaining, idx, suggested, plan_data, plan_json, result, error, response,
          normCalls, refinerCalls, stageLog, client, apiKey>>

(***************************************************************************)
(* Bounds                                                                  *)
(***************************************************************************)
MaxTasks == 3       \* longest task list given to score_tasks
MaxSel == 3         \* longest scored list given to choose_shortlist
MaxEst == 2         \* largest est_minutes in the choose_shortlist inputs
MaxAvail == 3       \* largest available_minutes in the choose_shortlist inputs
MaxTextLen == 4     \* longest collaborator response, in tokens

(***************************************************************************)
(* Python values                                                           *)
(***************************************************************************)
None == [tag |-> "None"]
List(s) == [tag |-> "list", items |-> s]
Dict(k) == [tag |-> "dict", kind |-> k]

IsList(v) == v.tag = "list"

Task(ti, im, ur, de, est) ==
    [title |-> ti, importance |-> im, urgency |-> ur, desire |-> de,
     est_minutes |-> est]

\* d[k] = v on a dict
SetItem(d, k, v) == [x \in (DOMAIN d) \cup {k} |-> IF x = k THEN v ELSE d[x]]

Range(s) == {s[k] : k \in 1..Len(s)}

SeqsUpTo(S, n) == UNION {[1..k -> S] : k \in 0..n}

(***************************************************************************)
(* main.py: SAMPLE_TASKS                                                   *)
(***************************************************************************)
SampleTasks ==
    << Task("Email accountant", 3, 3, 1, 20),
       Task("Practice DSA", 2, 1, 3, 30),
       Task("Take a break", 2, 2, 2, 20) >>

(***************************************************************************)
(* main.py: compute_priority_score, in units of 0.5                        *)
(*   ((1.5 * importance) * (1 * urgency)) + (1 * desire)                   *)
(***************************************************************************)
ImportanceWeight2 == 3      \* 1.5, in halves
UrgencyWeight == 1
DesireWeight == 1

compute_priority_score_sum(task) ==
    ((ImportanceWeight2 * task["importance"]) + (UrgencyWeight * task["urgency"]))
        + 2 * (DesireWeight * task["desire"])

compute_priority_score(task) ==
    ((ImportanceWeight2 * task["importance"]) * (UrgencyWeight * task["urgency"]))
        + 2 * (DesireWeight * task["desire"])

(***************************************************************************)
(* main.py: score_tasks                                                    *)
(***************************************************************************)
\* the loop body: t_copy = dict(t); t_copy["score"] = ...; scored.append(t_copy)
\* orig is the caller's record after the body, copy the appended record.
ScoreBody_inplace(t) ==
    LET s == SetItem(t, "score", compute_priority_score(t))
    IN  [orig |-> s, copy |-> s]

ScoreBody(t) ==
    LET t_copy == t
    IN  [orig |-> t,
         copy |-> SetItem(t_copy, "score", compute_priority_score(t_copy))]

\* list.sort(key=score, reverse=True): a stable sort; with reverse=True the
\* elements of equal key keep their original relative order.  Computed by
\* insertion from the left: x goes behind every element whose key is >= its own.
RECURSIVE InsertDesc_unstable(_, _)
InsertDesc_unstable(s, x) ==
    IF s = <<>> THEN <<x>>
    ELSE IF Head(s)["score"] > x["score"]
         THEN <<Head(s)>> \o InsertDesc_unstable(Tail(s), x)
         ELSE <<x>> \o s

RECURSIVE InsertDesc(_, _)
InsertDesc(s, x) ==
    IF s = <<>> THEN <<x>>
    ELSE IF Head(s)["score"] >= x["score"]
         THEN <<Head(s)>> \o InsertDesc(Tail(s), x)
         ELSE <<x>> \o s

RECURSIVE SortDesc(_, _)
SortDesc(done, todo) ==
    IF todo = <<>> THEN done
    ELSE SortDesc(InsertDesc(done, Head(todo)), Tail(todo))

\* tasks: the argument list after the call; scored: the returned list
score_tasks(ts) ==
    LET bodies == [k \in 1..Len(ts) |-> ScoreBody(ts[k])]
    IN  [tasks  |-> [k \in 1..Len(ts) |-> bodies[k].orig],
         scored |-> SortDesc(<<>>, [k \in 1..Len(ts) |-> bodies[k].copy])]

(***************************************************************************)
(* main.py: choose_shortlist                                               *)
(***************************************************************************)
\* state of the call: the argument list, the loop position, remaining, shortlist
SelectBegin(scored_tasks, avail) ==
    [scored_tasks |-> scored_tasks, i |-> 1, remaining |-> avail,
     shortlist |-> <<>>]

\* one iteration of `for t in scored_tasks`
SelectVisit_strict(st) ==
    LET t == st.scored_tasks[st.i]
        est == t["est_minutes"]
    IN  IF est < st.remaining
        THEN [st EXCEPT !.shortlist = Append(@, t),
                        !.remaining = @ - est,
                        !.i = @ + 1]
        ELSE [st EXCEPT !.i = @ + 1]

SelectVisit_nodecrement(st) ==
    LET t == st.scored_tasks[st.i]
        est == t["est_minutes"]
    IN  IF est <= st.remaining
        THEN [st EXCEPT !.shortlist = Append(@, t),
                        !.i = @ + 1]
        ELSE [st EXCEPT !.i = @ + 1]

SelectVisit(st) ==
    LET t == st.scored_tasks[st.i]
        est == t["est_minutes"]
    IN  IF est <= st.remaining
        THEN [st EXCEPT !.shortlist = Append(@, t),
                        !.remaining = @ - est,
                        !.i = @ + 1]
        ELSE [st EXCEPT !.i = @ + 1]

RECURSIVE SelectLoop(_)
SelectLoop(st) ==
    IF st.i > Len(st.scored_tasks) THEN st ELSE SelectLoop(SelectVisit(st))

\* the whole call: the state at `return shortlist`
choose_shortlist(scored_tasks, avail) == SelectLoop(SelectBegin(scored_tasks, avail))

(***************************************************************************)
(* main.py: assemble_plan_data                                             *)
(***************************************************************************)
assemble_plan_data_truthy(all_tasks, avail, energy, suggested_shortlist) ==
    LET base == [available_minutes |-> avail, energy_level |-> energy,
                 all_tasks |-> all_tasks]
    IN  IF suggested_shortlist # None /\ suggested_shortlist # List(<<>>)
        THEN SetItem(base, "suggested_shortlist", suggested_shortlist)
        ELSE base

assemble_plan_data(all_tasks, avail, energy, suggested_shortlist) ==
    LET base == [available_minutes |-> avail, energy_level |-> energy,
                 all_tasks |-> all_tasks]
    IN  IF suggested_shortlist # None
        THEN SetItem(base, "suggested_shortlist", suggested_shortlist)
        ELSE base

(***************************************************************************)
(* Inputs                                                                  *)
(***************************************************************************)
Ratings == {1, 2, 3}

\* every rating triple, for the score formula
AllRatingTasks ==
    {Task("t", im, ur, de, 1) : im \in Ratings, ur \in Ratings, de \in Ratings}

\* tasks whose scores tie (8 = 8) and differ, for the ordering
SortTasks ==
    {Task(ti, r[1], r[2], r[3], 1) :
        ti \in {"a", "b"}, r \in {<<1, 2, 1>>, <<2, 1, 1>>, <<3, 3, 1>>}}

ScoreInputs ==
    SeqsUpTo(AllRatingTasks, 1) \cup SeqsUpTo(SortTasks, MaxTasks) \cup {SampleTasks}

\* tasks of two scores and every est_minutes in 0..MaxEst
SelectTasks ==
    {Task("t", r[1], r[2], r[3], est) :
        r \in {<<3, 3, 1>>, <<2, 2, 2>>}, est \in 0..MaxEst}

SelectInputs == SeqsUpTo(SelectTasks, MaxSel)

Energies == {"low", "medium", "high", ""}

(***************************************************************************)
(* The variables a specification does not use                              *)
(***************************************************************************)
RunVarsIdle ==
    /\ raw_tasks_str = None
    /\ tasks = None /\ tasksSrc = ""
    /\ plan_json = None /\ result = None /\ error = ""
    /\ response = None
    /\ normCalls = 0 /\ refinerCalls = 0 /\ stageLog = <<>>
    /\ client = None /\ apiKey = TRUE
    /\ SAMPLE_TASKS = List(SampleTasks)

runVars == <<raw_tasks_str, tasks, tasksSrc, plan_json, result, error, response,
             normCalls, refinerCalls, stageLog, client, apiKey, SAMPLE_TASKS>>

(***************************************************************************)
(* SpecScore: a caller applies score_tasks to its list                     *)
(***************************************************************************)
InitScore ==
    /\ pc = "score_call"
    /\ callerTasks \in {List(l) : l \in ScoreInputs}
    /\ callerOrig = callerTasks
    /\ available_minutes = 60 /\ energy_level = "medium"
    /\ scored = None /\ shortlist = None /\ remaining = 0 /\ idx = 0
    /\ suggested = None /\ plan_data = None
    /\ RunVarsIdle

ScoreCall ==
    /\ pc = "score_call"
    /\ LET r == score_tasks(callerTasks.items)
       IN  /\ callerTasks' = List(r.tasks)
           /\ scored' = List(r.scored)
    /\ pc' = "score_done"
    /\ UNCHANGED <<callerOrig, available_minutes, energy_level, shortlist,
                   remaining, idx, suggested, plan_data, runVars>>

NextScore == ScoreCall

SpecScore == InitScore /\ [][NextScore]_vars

(***************************************************************************)
(* SpecSelect: a caller applies choose_shortlist to a scored list, one     *)
(* loop iteration per step, and then assemble_plan_data                    *)
(***************************************************************************)
InitSelect ==
    /\ pc = "select_call"
    /\ callerTasks = None /\ callerOrig = None
    /\ scored \in {List(score_tasks(l).scored) : l \in SelectInputs}
    /\ available_minutes \in (-1)..MaxAvail
    /\ energy_level = "medium"
    /\ shortlist = None /\ remaining = 0 /\ idx = 0
    /\ suggested = None /\ plan_data = None
    /\ RunVarsIdle

\* the call state held in the variables
SelState ==
    [scored_tasks |-> scored.items, i |-> idx, remaining |-> remaining,
     shortlist |-> shortlist.items]

SelectCall ==
    /\ pc = "select_call"
    /\ LET st == SelectBegin(scored.items, available_minutes)
       IN  /\ scored' = List(st.scored_tasks)
           /\ idx' = st.i
           /\ remaining' = st.remaining
           /\ shortlist' = List(st.shortlist)
    /\ pc' = "select_loop"
    /\ UNCHANGED <<callerTasks, callerOrig, available_minutes, energy_level,
                   suggested, plan_data, runVars>>

SelectIter ==
    /\ pc = "select_loop"
    /\ idx <= Len(scored.items)
    /\ LET st == SelectVisit(SelState)
       IN  /\ scored' = List(st.scored_tasks)
           /\ idx' = st.i
           /\ remaining' = st.remaining
           /\ shortlist' = List(st.shortlist)
    /\ UNCHANGED <<pc, callerTasks, callerOrig, available_minutes, energy_level,
                   suggested, plan_data, runVars>>

SelectReturn ==
    /\ pc = "select_loop"
    /\ idx > Len(scored.items)
    /\ pc' = "select_done"
    /\ UNCHANGED <<callerTasks, callerOrig, available_minutes, energy_level,
                   scored, shortlist, remaining, idx, suggested, plan_data, runVars>>

AssembleCall ==
    /\ pc = "select_done"
    /\ \E e \in Energies, s \in {None, List(<<>>), shortlist} :
        /\ energy_level' = e
        /\ suggested' = s
        /\ plan_data' = assemble_plan_data(scored, available_minutes, e, s)
    /\ pc' = "assemble_done"
    /\ UNCHANGED <<callerTasks, callerOrig, available_minutes, scored, shortlist,
                   remaining, idx, runVars>>

NextSelect == SelectCall \/ SelectIter \/ SelectReturn \/ AssembleCall

SpecSelect == InitSelect /\ [][NextSelect]_vars

(***************************************************************************)
(* Response texts and the Python string operations used on them            *)
(***************************************************************************)
Tokens == {"F", "NL", "X", "JA", "JO"}

Texts == SeqsUpTo(Tokens, MaxTextLen)

Str(x) == [tag |-> "str", val |-> x]

\* response.text: a text, or None
Responses == {None} \cup {Str(t) : t \in Texts}

RECURSIVE LStrip(_)
LStrip(s) == IF s # <<>> /\ Head(s) = "NL" THEN LStrip(Tail(s)) ELSE s

RECURSIVE RStrip(_)
RStrip(s) ==
    IF s # <<>> /\ s[Len(s)] = "NL" THEN RStrip(SubSeq(s, 1, Len(s) - 1)) ELSE s

\* str.strip()
Strip(s) == RStrip(LStrip(s))

\* s.startswith("```"), s.endswith("```")
StartsWithFence(s) == s # <<>> /\ s[1] = "F"
EndsWithFence(s) == s # <<>> /\ s[Len(s)] = "F"

\* s.find("\n"): the first position of a newline, 0 when there is none
FindNewline(s) ==
    IF \E k \in 1..Len(s) : s[k] = "NL"
    THEN CHOOSE k \in 1..Len(s) : s[k] = "NL" /\ \A j \in 1..(k - 1) : s[j] # "NL"
    ELSE 0

\* if first_newline != -1: text = text[first_newline + 1:]
DropFirstLine(s) ==
    LET k == FindNewline(s)
    IN  IF k # 0 THEN SubSeq(s, k + 1, Len(s)) ELSE s

\* s.rsplit("```", 1)[0]: what precedes the last fence
BeforeLastFence(s) ==
    IF \E k \in 1..Len(s) : s[k] = "F"
    THEN LET k == CHOOSE k \in 1..Len(s) :
                      s[k] = "F" /\ \A j \in (k + 1)..Len(s) : s[j] # "F"
         IN  SubSeq(s, 1, k - 1)
    ELSE s

(***************************************************************************)
(* The collaborators' answers                                              *)
(***************************************************************************)
\* the task list that the JSON array "JA" denotes
NormTasks ==
    << Task("Email accountant", 3, 3, 2, 20),
       Task("Take a break", 2, 2, 2, 15),
       Task("Practice DSA", 2, 2, 3, 30) >>

\* the value a JSON token denotes: "JA" a list, "JO" an object
TokenValue(tok) == IF tok = "JA" THEN List(NormTasks) ELSE Dict("plan")

\* json.loads: whitespace around one JSON value is accepted, anything else raises
JsonLoads(s) ==
    LET b == Strip(s)
    IN  IF Len(b) = 1 /\ b[1] \in {"JA", "JO"}
        THEN [raised |-> "", value |-> TokenValue(b[1])]
        ELSE [raised |-> "JSONDecodeError", value |-> None]

(***************************************************************************)
(* parse_tasks_agent.py: call_parse_tasks_agent, from the response on      *)
(***************************************************************************)
\* lines 72-82: strip, and drop the fences if the text starts with one
NormalizerClean(text) ==
    LET raw_text == Strip(text)
    IN  IF StartsWithFence(raw_text)
        THEN LET a == DropFirstLine(raw_text)
             IN  IF EndsWithFence(a) THEN Strip(SubSeq(a, 1, Len(a) - 1)) ELSE a
        ELSE raw_text

\* lines 72-89: tasks = json.loads(raw_text); return tasks
ParseTasksResult(text) == JsonLoads(NormalizerClean(text))

(***************************************************************************)
(* plan_explainer_agent.py                                                 *)
(***************************************************************************)
ClientObj == [tag |-> "client"]

\* get_client: the cached client, created on first use when the key is set
get_client(c, key) ==
    IF c = None
    THEN IF ~key
         THEN [raised |-> "RuntimeError", client |-> c]
         ELSE [raised |-> "", client |-> ClientObj]
    ELSE [raised |-> "", client |-> c]

\* _strip_markdown_fences
StripMarkdownFences(raw_text) ==
    LET text == Strip(raw_text)
    IN  IF StartsWithFence(text)
        THEN LET a == DropFirstLine(text)
                 b == IF EndsWithFence(Strip(a)) THEN BeforeLastFence(a) ELSE a
             IN  Strip(b)
        ELSE Strip(text)

\* call_planning_agent, lines 150-166: raw_text = (response.text or "").strip(),
\* cleaned, json.loads in try/except that re-raises
PlanningResult_swallow(resp) ==
    LET raw_text == Strip(IF resp = None THEN <<>> ELSE resp.val)
        r == JsonLoads(StripMarkdownFences(raw_text))
    IN  IF r.raised # "" THEN [raised |-> "", value |-> Dict("empty")] ELSE r

PlanningResult(resp) ==
    LET raw_text == Strip(IF resp = None THEN <<>> ELSE resp.val)
        r == JsonLoads(StripMarkdownFences(raw_text))
    IN  IF r.raised # "" THEN [raised |-> r.raised, value |-> None] ELSE r

\* The outcome of parsing depends on the response alone: both are tabulated,
\* one entry per response.
ParseTasksTable == [t \in Texts |-> ParseTasksResult(t)]

PlanningTable == [r \in Responses |-> PlanningResult(r)]

(***************************************************************************)
(* task_advisor.py: run_task_advisor                                       *)
(***************************************************************************)
\* lines 53-59: which source the tasks come from
ResolveSource_truthy(tasksArg, raw) ==
    IF tasksArg # None /\ tasksArg # List(<<>>) THEN "arg"
    ELSE IF raw # None THEN "normalizer"
    ELSE "default"

ResolveSource(tasksArg, raw) ==
    IF tasksArg # None THEN "arg"
    ELSE IF raw # None THEN "normalizer"
    ELSE "default"

\* inputs of a run
CallerLists ==
    { <<>>,
      << Task("Write report", 3, 2, 2, 30), Task("Call bank", 2, 3, 2, 40) >> }

RawTexts == {Str("raw")}

RunMinutes == {0, 60}

\* available_minutes and energy_level of a run
RunSessions == {<<0, "low">>, <<60, "medium">>}

Quiescent == pc \in {"idle", "returned", "failed"}

Init ==
    /\ pc = "idle"
    /\ callerTasks = None /\ callerOrig = None
    /\ raw_tasks_str = None
    /\ available_minutes = 60 /\ energy_level = "medium"
    /\ SAMPLE_TASKS = List(SampleTasks)
    /\ tasks = None /\ tasksSrc = ""
    /\ scored = None /\ shortlist = None /\ remaining = 0 /\ idx = 0
    /\ suggested = None /\ plan_data = None /\ plan_json = None
    /\ result = None /\ error = "" /\ response = None
    /\ normCalls = 0 /\ refinerCalls = 0 /\ stageLog = <<>>
    /\ client = None
    /\ apiKey \in BOOLEAN

\* the locals and the history of a call that begins
FreshLocals ==
    /\ tasks' = None /\ tasksSrc' = ""
    /\ scored' = None /\ shortlist' = None /\ remaining' = 0 /\ idx' = 0
    /\ suggested' = None /\ plan_data' = None /\ plan_json' = None
    /\ result' = None /\ error' = "" /\ response' = None
    /\ normCalls' = 0 /\ refinerCalls' = 0 /\ stageLog' = <<>>

\* an exception leaves run_task_advisor: nothing is returned
Fail(e) == pc' = "failed" /\ error' = e /\ result' = None

\* the environment gains or loses GOOGLE_API_KEY between calls
SetEnv ==
    /\ Quiescent
    /\ apiKey' = ~apiKey
    /\ UNCHANGED <<pc, callerTasks, callerOrig, raw_tasks_str, available_minutes,
                   energy_level, SAMPLE_TASKS, tasks, tasksSrc, scored, shortlist,
                   remaining, idx, suggested, plan_data, plan_json, result, error,
                   response, normCalls, refinerCalls, stageLog, client>>

StartRun ==
    /\ Quiescent
    /\ \E t \in {None} \cup {List(l) : l \in CallerLists},
          r \in {None} \cup RawTexts,
          s \in RunSessions :
        /\ callerTasks' = t /\ callerOrig' = t
        /\ raw_tasks_str' = r
        /\ available_minutes' = s[1]
        /\ energy_level' = s[2]
    /\ FreshLocals
    /\ pc' = "resolve"
    /\ UNCHANGED <<SAMPLE_TASKS, client, apiKey>>

\* lines 53-59
Resolve ==
    /\ pc = "resolve"
    /\ stageLog' = Append(stageLog, "resolve")
    /\ LET src == ResolveSource(callerTasks, raw_tasks_str)
       IN  CASE src = "arg" ->
                  /\ tasks' = callerTasks /\ tasksSrc' = "arg" /\ pc' = "score"
             [] src = "normalizer" ->
                  /\ pc' = "norm_client" /\ UNCHANGED <<tasks, tasksSrc>>
             [] src = "default" ->
                  /\ tasks' = SAMPLE_TASKS /\ tasksSrc' = "default" /\ pc' = "score"
    /\ UNCHANGED <<callerTasks, callerOrig, raw_tasks_str, available_minutes,
                   energy_level, SAMPLE_TASKS, scored, shortlist, remaining, idx,
                   suggested, plan_data, plan_json, result, error, response,
                   normCalls, refinerCalls, client, apiKey>>

\* parse_tasks_agent.py 36-38: load_dotenv(); genai.Client() reads the key from
\* the environment and raises ValueError when there is none
NormClient ==
    /\ pc = "norm_client"
    /\ IF apiKey
       THEN pc' = "norm_call" /\ UNCHANGED <<error, result>>
       ELSE Fail("ValueError")
    /\ UNCHANGED <<callerTasks, callerOrig, raw_tasks_str, available_minutes,
                   energy_level, SAMPLE_TASKS, tasks, tasksSrc, scored, shortlist,
                   remaining, idx, suggested, plan_data, plan_json, response,
                   normCalls, refinerCalls, stageLog, client, apiKey>>

\* parse_tasks_agent.py 62-70: the request is answered with a text (or none)
NormCallReturns ==
    /\ pc = "norm_call"
    /\ normCalls' = normCalls + 1
    /\ response' \in Responses
    /\ pc' = "norm_parse"
    /\ UNCHANGED <<callerTasks, callerOrig, raw_tasks_str, available_minutes,
                   energy_level, SAMPLE_TASKS, tasks, tasksSrc, scored, shortlist,
                   remaining, idx, suggested, plan_data, plan_json, result, error,
                   refinerCalls, stageLog, client, apiKey>>

\* parse_tasks_agent.py 62-70: the request raises
NormCallRaises ==
    /\ pc = "norm_call"
    /\ normCalls' = normCalls + 1
    /\ Fail("APIError")
    /\ UNCHANGED <<callerTasks, callerOrig, raw_tasks_str, available_minutes,
                   energy_level, SAMPLE_TASKS, tasks, tasksSrc, scored, shortlist,
                   remaining, idx, suggested, plan_data, plan_json, response,
                   refinerCalls, stageLog, client, apiKey>>

\* parse_tasks_agent.py 72-89; response.text.strip() raises on None
NormParse ==
    /\ pc = "norm_parse"
    /\ response' = None
    /\ IF response = None
       THEN Fail("AttributeError") /\ UNCHANGED <<tasks, tasksSrc>>
       ELSE LET r == ParseTasksTable[response.val]
            IN  IF r.raised # ""
                THEN Fail(r.raised) /\ UNCHANGED <<tasks, tasksSrc>>
                ELSE /\ tasks' = r.value /\ tasksSrc' = "normalizer"
                     /\ pc' = "score" /\ UNCHANGED <<error, result>>
    /\ UNCHANGED <<callerTasks, callerOrig, raw_tasks_str, available_minutes,
                   energy_level, SAMPLE_TASKS, scored, shortlist, remaining, idx,
                   suggested, plan_data, plan_json, normCalls, refinerCalls,
                   stageLog, client, apiKey>>

\* line 63: scored = score_tasks(tasks).  Iterating a dict yields its keys and
\* dict(key) raises ValueError.  The list passed is written back to the object
\* it aliases.
Score ==
    /\ pc = "score"
    /\ stageLog' = Append(stageLog, "score")
    /\ IF ~IsList(tasks)
       THEN /\ Fail("ValueError")
            /\ UNCHANGED <<tasks, scored, callerTasks, SAMPLE_TASKS>>
       ELSE LET r == score_tasks(tasks.items)
            IN  /\ scored' = List(r.scored)
                /\ tasks' = List(r.tasks)
                /\ callerTasks' = IF tasksSrc = "arg" THEN List(r.tasks)
                                  ELSE callerTasks
                /\ SAMPLE_TASKS' = IF tasksSrc = "default" THEN List(r.tasks)
                                   ELSE SAMPLE_TASKS
                /\ pc' = "select" /\ UNCHANGED <<error, result>>
    /\ UNCHANGED <<callerOrig, raw_tasks_str, available_minutes, energy_level,
                   tasksSrc, shortlist, remaining, idx, suggested, plan_data,
                   plan_json, response, normCalls, refinerCalls, client, apiKey>>

\* line 67: shortlist = choose_shortlist(scored, available_minutes=...)
Select ==
    /\ pc = "select"
    /\ stageLog' = Append(stageLog, "select")
    /\ LET st == choose_shortlist(scored.items, available_minutes)
       IN  /\ scored' = List(st.scored_tasks)
           /\ shortlist' = List(st.shortlist)
           /\ remaining' = st.remaining
           /\ idx' = st.i
    /\ pc' = "assemble"
    /\ UNCHANGED <<callerTasks, callerOrig, raw_tasks_str, available_minutes,
                   energy_level, SAMPLE_TASKS, tasks, tasksSrc, suggested,
                   plan_data, plan_json, result, error, response, normCalls,
                   refinerCalls, client, apiKey>>

\* lines 71-76
Assemble ==
    /\ pc = "assemble"
    /\ stageLog' = Append(stageLog, "assemble")
    /\ suggested' = shortlist
    /\ plan_data' = assemble_plan_data(scored, available_minutes, energy_level,
                                       shortlist)
    /\ pc' = "ref_client"
    /\ UNCHANGED <<callerTasks, callerOrig, raw_tasks_str, available_minutes,
                   energy_level, SAMPLE_TASKS, tasks, tasksSrc, scored, shortlist,
                   remaining, idx, plan_json, result, error, response, normCalls,
                   refinerCalls, client, apiKey>>

\* line 80 -> call_planning_agent 133-144: the prompt, then client = get_client()
RefClient ==
    /\ pc = "ref_client"
    /\ stageLog' = Append(stageLog, "refine")
    /\ LET g == get_client(client, apiKey)
       IN  /\ client' = g.client
           /\ IF g.raised # ""
              THEN Fail(g.raised)
              ELSE pc' = "ref_call" /\ UNCHANGED <<error, result>>
    /\ UNCHANGED <<callerTasks, callerOrig, raw_tasks_str, available_minutes,
                   energy_level, SAMPLE_TASKS, tasks, tasksSrc, scored, shortlist,
                   remaining, idx, suggested, plan_data, plan_json, response,
                   normCalls, refinerCalls, apiKey>>

\* call_planning_agent 145-148: the request is answered with a text (or none)
RefCallReturns ==
    /\ pc = "ref_call"
    /\ refinerCalls' = refinerCalls + 1
    /\ response' \in Responses
    /\ pc' = "ref_parse"
    /\ UNCHANGED <<callerTasks, callerOrig, raw_tasks_str, available_minutes,
                   energy_level, SAMPLE_TASKS, tasks, tasksSrc, scored, shortlist,
                   remaining, idx, suggested, plan_data, plan_json, result, error,
                   normCalls, stageLog, client, apiKey>>

\* call_planning_agent 145-148: the request raises
RefCallRaises ==
    /\ pc = "ref_call"
    /\ refinerCalls' = refinerCalls + 1
    /\ Fail("APIError")
    /\ UNCHANGED <<callerTasks, callerOrig, raw_tasks_str, available_minutes,
                   energy_level, SAMPLE_TASKS, tasks, tasksSrc, scored, shortlist,
                   remaining, idx, suggested, plan_data, plan_json, response,
                   normCalls, stageLog, client, apiKey>>

\* call_planning_agent 150-166
RefParse ==
    /\ pc = "ref_parse"
    /\ response' = None
    /\ LET r == PlanningTable[response]
       IN  IF r.raised # ""
           THEN Fail(r.raised) /\ UNCHANGED plan_json
           ELSE /\ plan_json' = r.value
                /\ pc' = "print" /\ UNCHANGED <<error, result>>
    /\ UNCHANGED <<callerTasks, callerOrig, raw_tasks_str, available_minutes,
                   energy_level, SAMPLE_TASKS, tasks, tasksSrc, scored, shortlist,
                   remaining, idx, suggested, plan_data, normCalls, refinerCalls,
                   stageLog, client, apiKey>>

\* lines 83-86: print_final_plan(plan_json) calls plan_json.get, which a list
\* does not have; then return plan_json
PrintAndReturn_payload ==
    /\ pc = "print"
    /\ IF plan_json.tag = "dict"
       THEN pc' = "returned" /\ result' = plan_data /\ UNCHANGED error
       ELSE Fail("AttributeError")
    /\ UNCHANGED <<callerTasks, callerOrig, raw_tasks_str, available_minutes,
                   energy_level, SAMPLE_TASKS, tasks, tasksSrc, scored, shortlist,
                   remaining, idx, suggested, plan_data, plan_json, response,
                   normCalls, refinerCalls, stageLog, client, apiKey>>

PrintAndReturn ==
    /\ pc = "print"
    /\ IF plan_json.tag = "dict"
       THEN pc' = "returned" /\ result' = plan_json /\ UNCHANGED error
       ELSE Fail("AttributeError")
    /\ UNCHANGED <<callerTasks, callerOrig, raw_tasks_str, available_minutes,
                   energy_level, SAMPLE_TASKS, tasks, tasksSrc, scored, shortlist,
                   remaining, idx, suggested, plan_data, plan_json, response,
                   normCalls, refinerCalls, stageLog, client, apiKey>>

\* the caller applies score_tasks itself, to a list of its own or to SAMPLE_TASKS
DirectScore ==
    /\ Quiescent
    /\ \E src \in {"arg", "default"}, l \in CallerLists :
        LET arg == IF src = "arg" THEN List(l) ELSE SAMPLE_TASKS
            r == score_tasks(arg.items)
        IN  /\ tasks' = List(r.tasks) /\ tasksSrc' = src
            /\ scored' = List(r.scored)
            /\ callerOrig' = IF src = "arg" THEN arg ELSE None
            /\ callerTasks' = IF src = "arg" THEN List(r.tasks) ELSE None
            /\ SAMPLE_TASKS' = IF src = "default" THEN List(r.tasks) ELSE SAMPLE_TASKS
    /\ shortlist' = None /\ remaining' = 0 /\ idx' = 0
    /\ suggested' = None /\ plan_data' = None /\ plan_json' = None
    /\ result' = None /\ error' = "" /\ response' = None
    /\ normCalls' = 0 /\ refinerCalls' = 0 /\ stageLog' = <<>>
    /\ raw_tasks_str' = None
    /\ pc' = "idle"
    /\ UNCHANGED <<available_minutes, energy_level, client, apiKey>>

\* the caller applies choose_shortlist itself, to the list score_tasks gave it
DirectSelect ==
    /\ pc = "idle" /\ scored # None /\ shortlist = None
    /\ \E a \in RunMinutes :
        LET st == choose_shortlist(scored.items, a)
        IN  /\ available_minutes' = a
            /\ scored' = List(st.scored_tasks)
            /\ shortlist' = List(st.shortlist)
            /\ remaining' = st.remaining
            /\ idx' = st.i
    /\ UNCHANGED <<pc, callerTasks, callerOrig, raw_tasks_str, energy_level,
                   SAMPLE_TASKS, tasks, tasksSrc, suggested, plan_data, plan_json,
                   result, error, response, normCalls, refinerCalls, stageLog,
                   client, apiKey>>

\* the steps of a run in progress
RunStep ==
    \/ Resolve \/ NormClient \/ NormCallReturns \/ NormCallRaises \/ NormParse
    \/ Score \/ Select \/ Assemble
    \/ RefClient \/ RefCallReturns \/ RefCallRaises \/ RefParse \/ PrintAndReturn

Next ==
    \/ SetEnv \/ StartRun \/ DirectScore \/ DirectSelect
    \/ Resolve \/ NormClient \/ NormCallReturns \/ NormCallRaises \/ NormParse
    \/ Score \/ Select \/ Assemble
    \/ RefClient \/ RefCallReturns \/ RefCallRaises \/ RefParse \/ PrintAndReturn

Spec == Init /\ [][Next]_vars

\* run_task_advisor is one synchronous call chain: a run that has begun takes
\* its next step, and a request to a collaborator is answered or raises
FairSpec == Spec /\ WF_vars(RunStep)

(***************************************************************************)
(* Helpers of the properties                                               *)
(***************************************************************************)
RECURSIVE SumEst(_)
SumEst(s) == IF s = <<>> THEN 0 ELSE Head(s)["est_minutes"] + SumEst(Tail(s))

Unscore(r) == [k \in (DOMAIN r) \ {"score"} |-> r[k]]

Perms(n) == {p \in [1..n -> 1..n] : \A a, b \in 1..n : p[a] = p[b] => a = b}

IsZeroMinute(t) == t["est_minutes"] = 0

SelectFinished == pc \in {"select_done", "assemble_done"}

SelectRunning == pc \in {"select_loop", "select_done", "assemble_done"}

(***************************************************************************)
(* C1  choose_shortlist, budget.                                           *)
(***************************************************************************)
\* C1 as stated: for every scored list with est_minutes >= 0 and every integer
\* available_minutes, the est_minutes of the returned shortlist sum to at most
\* available_minutes.
C1_BudgetAllInputs ==
    SelectFinished => SumEst(shortlist.items) <= available_minutes

\* C1 amended: during and after the call the est_minutes of the shortlist sum
\* to at most available_minutes when available_minutes >= 0; when
\* available_minutes < 0 the shortlist is empty (its sum, 0, exceeds the budget).
C1_Budget ==
    SelectRunning =>
        /\ available_minutes >= 0 => SumEst(shortlist.items) <= available_minutes
        /\ available_minutes < 0 => shortlist.items = <<>>

\* a finished call that filled the budget exactly and left a task out
C1_Witness ==
    /\ pc = "select_done"
    /\ available_minutes > 0
    /\ SumEst(shortlist.items) = available_minutes
    /\ Len(shortlist.items) >= 2
    /\ Len(shortlist.items) < Len(scored.items)

(***************************************************************************)
(* C2  choose_shortlist, greedy single pass.                               *)
(***************************************************************************)
\* C2: the call starts with remaining = available_minutes and an empty
\* shortlist; every step of the loop visits the next task of the list, in
\* order; the task is appended and remaining reduced by its est_minutes iff
\* est_minutes <= remaining at that moment, and otherwise nothing but the
\* position changes; the list visited never changes, and after the loop the
\* shortlist is returned as it stands.
C2_StepIsGreedy ==
    /\ pc = "select_call" =>
          /\ pc' = "select_loop" /\ idx' = 1
          /\ remaining' = available_minutes /\ shortlist' = List(<<>>)
    /\ (pc = "select_loop" /\ idx <= Len(scored.items)) =>
          LET t == scored.items[idx] IN
          /\ pc' = "select_loop" /\ idx' = idx + 1
          /\ IF t["est_minutes"] <= remaining
             THEN /\ shortlist' = List(Append(shortlist.items, t))
                  /\ remaining' = remaining - t["est_minutes"]
             ELSE /\ shortlist' = shortlist
                  /\ remaining' = remaining
    /\ (pc = "select_loop" /\ idx > Len(scored.items)) =>
          /\ pc' = "select_done" /\ shortlist' = shortlist
    /\ SelectFinished => shortlist' = shortlist
    /\ SelectRunning => scored' = scored

C2_GreedySinglePass == [][C2_StepIsGreedy]_vars

\* a finished call in which a task that did not fit stays out while a later,
\* smaller task is in
C2_Witness ==
    /\ pc = "select_done"
    /\ \E j, k \in 1..Len(scored.items) :
          /\ j < k
          /\ scored.items[k]["est_minutes"] < scored.items[j]["est_minutes"]
          /\ scored.items[j] \notin Range(shortlist.items)
          /\ scored.items[k] \in Range(shortlist.items)
          /\ scored.items[j]["est_minutes"] <= available_minutes

(***************************************************************************)
(* C3  score_tasks, ordering.                                              *)
(***************************************************************************)
\* C3: the returned list is a rearrangement of the input, one scored record
\* per input task, in non-increasing score, and records of equal score are in
\* the order of the input.
C3_SortedStable ==
    pc = "score_done" =>
        LET out == scored.items
            inp == callerOrig.items
        IN  /\ Len(out) = Len(inp)
            /\ \A k \in 1..(Len(out) - 1) : out[k]["score"] >= out[k + 1]["score"]
            /\ \E p \in Perms(Len(inp)) :
                  /\ \A k \in 1..Len(out) : Unscore(out[k]) = inp[p[k]]
                  /\ \A k, l \in 1..Len(out) :
                        (k < l /\ out[k]["score"] = out[l]["score"]) => p[k] < p[l]

\* three tasks were sorted, two different ones of equal score among them, and
\* the order of the input was not the order of the output
C3_Witness ==
    /\ pc = "score_done"
    /\ Len(scored.items) = 3
    /\ scored.items[2]["score"] = scored.items[3]["score"]
    /\ scored.items[2] # scored.items[3]
    /\ Unscore(scored.items[1]) = callerOrig.items[3]

(***************************************************************************)
(* C4  score formula.                                                      *)
(***************************************************************************)
\* C4: every record returned by score_tasks carries, for its own ratings in
\* {1,2,3}, the score 1.5*importance*urgency + desire (twice the score is
\* 3*importance*urgency + 2*desire); ratings 3,3,1 give 14.5 (29 halves).
C4_ScoreFormula ==
    pc = "score_done" =>
        \A k \in 1..Len(scored.items) :
            LET r == scored.items[k] IN
            /\ r["score"] = 3 * r["importance"] * r["urgency"] + 2 * r["desire"]
            /\ (r["importance"] = 3 /\ r["urgency"] = 3 /\ r["desire"] = 1)
                  => r["score"] = 29

\* ratings 3,3,1 were scored 14.5, next to tasks of other ratings
C4_Witness ==
    /\ pc = "score_done"
    /\ Len(scored.items) = 3
    /\ \E k \in 1..3 :
          /\ scored.items[k]["importance"] = 3 /\ scored.items[k]["urgency"] = 3
          /\ scored.items[k]["desire"] = 1 /\ scored.items[k]["score"] = 29
    /\ \E k \in 1..3 : scored.items[k]["score"] = 8

(***************************************************************************)
(* C9  assemble_plan_data, shape of the result.                            *)
(***************************************************************************)
\* C9: the payload has available_minutes, energy_level and all_tasks equal to
\* the arguments; it has suggested_shortlist, equal to the argument, iff that
\* argument is not None (an empty list is included); it has no other field.
C9_PayloadShape ==
    pc = "assemble_done" =>
        /\ plan_data["available_minutes"] = available_minutes
        /\ plan_data["energy_level"] = energy_level
        /\ plan_data["all_tasks"] = scored
        /\ ("suggested_shortlist" \in DOMAIN plan_data) <=> (suggested # None)
        /\ suggested # None => plan_data["suggested_shortlist"] = suggested
        /\ (DOMAIN plan_data) \subseteq
              {"available_minutes", "energy_level", "all_tasks", "suggested_shortlist"}

\* a payload assembled with an empty, non-null shortlist
C9_Witness ==
    /\ pc = "assemble_done"
    /\ suggested = List(<<>>)
    /\ scored.items # <<>>
    /\ "suggested_shortlist" \in DOMAIN plan_data

(***************************************************************************)
(* C10  choose_shortlist, zero-minute tasks.                               *)
(***************************************************************************)
\* C10 as stated: for every scored list and every available_minutes, every
\* task with est_minutes = 0 is in the returned shortlist.
C10_ZeroAlwaysIncluded ==
    SelectFinished =>
        \A k \in 1..Len(scored.items) :
            IsZeroMinute(scored.items[k]) => scored.items[k] \in Range(shortlist.items)

\* C10 amended: when available_minutes >= 0 the zero-minute tasks of the
\* shortlist are exactly the zero-minute tasks of the input, each one and in
\* order, whatever remained when they were visited; when available_minutes < 0
\* no task is included, zero-minute or not.
C10_ZeroIncluded ==
    SelectFinished =>
        /\ available_minutes >= 0 =>
              SelectSeq(shortlist.items, IsZeroMinute)
                  = SelectSeq(scored.items, IsZeroMinute)
        /\ available_minutes < 0 => shortlist.items = <<>>

\* a zero-minute task was visited with nothing remaining and is in the shortlist
C10_Witness ==
    /\ pc = "select_done"
    /\ available_minutes > 0
    /\ remaining = 0
    /\ Len(shortlist.items) >= 2
    /\ IsZeroMinute(shortlist.items[Len(shortlist.items)])

(***************************************************************************)
(* Helpers of the properties of run_task_advisor                           *)
(***************************************************************************)
\* out holds one record per element of inp, equal to it but for the score
IsScoringOf(out, inp) ==
    /\ Len(out) = Len(inp)
    /\ \E p \in Perms(Len(inp)) : \A k \in 1..Len(out) : Unscore(out[k]) = inp[p[k]]

StageOrder == <<"resolve", "score", "select", "assemble", "refine">>

PcOrder ==
    <<"resolve", "norm_client", "norm_call", "norm_parse", "score", "select",
      "assemble", "ref_client", "ref_call", "ref_parse", "print">>

Running == pc \in Range(PcOrder)

Ended == pc \in {"returned", "failed"}

Rank(p) == IF p \in Range(PcOrder)
           THEN CHOOSE k \in 1..Len(PcOrder) : PcOrder[k] = p
           ELSE Len(PcOrder) + 1

\* the text is one JSON value, with whitespace around it at most
IsJsonText(s) == \E tok \in {"JA", "JO"} : Strip(s) = <<tok>>

\* the value is the one a JSON token of the response text denotes
DenotedBy(value, resp) ==
    /\ resp # None
    /\ \E k \in 1..Len(resp.val) :
          resp.val[k] \in {"JA", "JO"} /\ value = TokenValue(resp.val[k])

(***************************************************************************)
(* C5  run_task_advisor, source of the tasks.                              *)
(***************************************************************************)
\* the source the arguments of the run call for
C5_Expected ==
    IF callerOrig # None THEN "arg"
    ELSE IF raw_tasks_str # None THEN "normalizer"
    ELSE "default"

C5_State ==
    (Running \/ Ended) =>
        /\ normCalls <= 1
        /\ C5_Expected \in {"arg", "default"} => normCalls = 0
        /\ (C5_Expected = "normalizer" /\ (Rank(pc) \in 4..11 \/ pc = "returned"))
              => normCalls = 1
        /\ (Rank(pc) \in 5..11 \/ pc = "returned") => tasks # None
        /\ tasks # None =>
              CASE C5_Expected = "arg" -> tasks = callerOrig
                [] C5_Expected = "default" -> tasks = List(SampleTasks)
                [] C5_Expected = "normalizer" ->
                      tasks \in {TokenValue("JA"), TokenValue("JO")}
        /\ scored # None => IsList(tasks) /\ IsScoringOf(scored.items, tasks.items)

C5_Step ==
    (pc = "norm_parse" /\ pc' = "score") => DenotedBy(tasks', response)

\* C5: when tasks is passed, that list is what is scored and the Normalizer is
\* not called, raw text or not; otherwise, when raw text is passed, the
\* Normalizer is called once and what it returned is scored; otherwise
\* SAMPLE_TASKS is scored and the Normalizer is not called.
C5_SourceResolution == []C5_State /\ [][C5_Step]_vars

\* a run given both a task list and raw text returned without a Normalizer call
C5_Witness ==
    /\ pc = "returned"
    /\ callerOrig # None /\ callerOrig.items # <<>>
    /\ raw_tasks_str # None
    /\ normCalls = 0
    /\ IsScoringOf(scored.items, callerOrig.items)

(***************************************************************************)
(* C6  run_task_advisor, linear pipeline.                                  *)
(***************************************************************************)
C6_State ==
    /\ Len(stageLog) <= Len(StageOrder)
    /\ \A k \in 1..Len(stageLog) : stageLog[k] = StageOrder[k]
    /\ refinerCalls <= 1
    /\ refinerCalls = 1 =>
          /\ stageLog = StageOrder
          /\ scored # None /\ shortlist # None
          /\ plan_data["all_tasks"] = scored
          /\ plan_data["suggested_shortlist"] = shortlist
          /\ plan_data["available_minutes"] = available_minutes
          /\ plan_data["energy_level"] = energy_level
    /\ pc = "returned" =>
          /\ refinerCalls = 1 /\ error = ""
          /\ result # None /\ result = plan_json
    /\ pc = "failed" => result = None /\ error # ""

C6_Step ==
    /\ Running => Rank(pc') > Rank(pc)
    /\ (pc = "ref_parse" /\ pc' = "print") => DenotedBy(plan_json', response)
    /\ (Ended /\ pc' # "resolve" /\ pc' # "idle") =>
          /\ pc' = pc /\ result' = result
          /\ refinerCalls' = refinerCalls /\ stageLog' = stageLog

\* C6: the stages of a run are entered in the order resolve, score, select,
\* assemble, refine, each at most once, and the position never moves back; the
\* Refiner is called at most once and only with the payload assembled from
\* this run's scored list and shortlist; a run that returns returns the record
\* parsed from the Refiner's response; every run ends, returned or failed.
C6_LinearPipeline ==
    /\ []C6_State
    /\ [][C6_Step]_vars
    /\ (Running ~> Ended)

\* a run went through the Normalizer and all five stages and returned the plan
C6_Witness ==
    /\ pc = "returned"
    /\ stageLog = StageOrder
    /\ normCalls = 1 /\ refinerCalls = 1
    /\ result = Dict("plan")

(***************************************************************************)
(* C7  parse failure is a hard failure.                                    *)
(***************************************************************************)
C7_Step ==
    /\ (pc = "norm_parse" /\ response # None
            /\ ~IsJsonText(NormalizerClean(response.val))) =>
          /\ pc' = "failed" /\ error' = "JSONDecodeError" /\ result' = None
          /\ scored' = None /\ shortlist' = None /\ plan_data' = None
          /\ refinerCalls' = 0 /\ normCalls' = 1
    /\ (pc = "ref_parse"
            /\ ~IsJsonText(StripMarkdownFences(
                    Strip(IF response = None THEN <<>> ELSE response.val)))) =>
          /\ pc' = "failed" /\ error' = "JSONDecodeError" /\ result' = None
          /\ refinerCalls' = 1
    /\ (pc = "failed" /\ pc' # "resolve" /\ pc' # "idle") =>
          /\ pc' = "failed" /\ result' = None
          /\ normCalls' = normCalls /\ refinerCalls' = refinerCalls

\* C7: a Normalizer response that is not JSON after the fences are stripped
\* ends the run with a parse error before anything is scored, selected or sent
\* to the Refiner; a Refiner response that is not JSON ends the run with a
\* parse error; a failed run returns nothing and calls no collaborator again.
C7_ParseFailureIsHard ==
    /\ [][C7_Step]_vars
    /\ [](pc = "failed" => result = None)

\* the Normalizer's only answer did not parse: nothing scored, no Refiner call
C7_Witness ==
    /\ pc = "failed" /\ error = "JSONDecodeError"
    /\ normCalls = 1 /\ refinerCalls = 0
    /\ scored = None /\ result = None

(***************************************************************************)
(* C8  copy semantics.                                                     *)
(***************************************************************************)
\* the list that was given to score_tasks, as it was before the call
C8_Original ==
    IF callerOrig # None THEN callerOrig.items
    ELSE IF raw_tasks_str # None THEN NormTasks
    ELSE SampleTasks

C8_State ==
    /\ SAMPLE_TASKS = List(SampleTasks)
    /\ callerTasks = callerOrig
    /\ scored # None => IsScoringOf(scored.items, C8_Original)

C8_Step ==
    (scored # None /\ shortlist = None /\ shortlist' # None) => scored' = scored

\* C8: whatever calls were made, SAMPLE_TASKS and the caller's list are as
\* they were (no score added, same order), each scored record equals its input
\* task on the five task fields, and choose_shortlist leaves its argument as
\* it was.
C8_CopySemantics == []C8_State /\ [][C8_Step]_vars

\* a run on the default tasks returned, and score_tasks had reordered them
C8_Witness ==
    /\ pc = "returned"
    /\ tasksSrc = "default"
    /\ Unscore(scored.items[2]) = SampleTasks[3]
    /\ Len(shortlist.items) = 2

(***************************************************************************)
(* C13  choose_shortlist, maximality of the greedy shortlist.              *)
(***************************************************************************)
\* how many times the record r occurs in the list s
Occurrences(s, r) == Cardinality({k \in 1..Len(s) : s[k] = r})

\* C13: for est_minutes >= 0 and available_minutes >= 0, at every step of the
\* loop remaining = available_minutes - (sum of est_minutes of the tasks
\* selected so far) and remaining >= 0; on return every task of the input
\* that was left out (it occurs more often in the input than in the
\* shortlist) has est_minutes greater than what remains, so none of them
\* could still be appended.
C13_GreedyMaximal ==
    (SelectRunning /\ available_minutes >= 0) =>
        /\ remaining = available_minutes - SumEst(shortlist.items)
        /\ remaining >= 0
        /\ SelectFinished =>
              \A r \in Range(scored.items) :
                  Occurrences(scored.items, r) > Occurrences(shortlist.items, r)
                      => /\ r["est_minutes"] > remaining
                         /\ SumEst(shortlist.items) + r["est_minutes"]
                                > available_minutes

\* a finished call with budget left over and a task left out, one that equals
\* a selected task among them
C13_Witness ==
    /\ pc = "select_done"
    /\ remaining > 0
    /\ Len(shortlist.items) >= 1
    /\ \E r \in Range(shortlist.items) :
          Occurrences(scored.items, r) > Occurrences(shortlist.items, r)

(***************************************************************************)
(* C11  runs of run_task_advisor are independent of one another.           *)
(***************************************************************************)
\* what get_client does in a process where no run has gone before
FreshProcessClient == None

\* C11: no run writes module-level state that another run reads, so a run's
\* outcome depends on its own arguments and collaborator responses only:
\* SAMPLE_TASKS is as it was when the module was loaded, and what a run does
\* at get_client (raise, or go on to the Refiner) is what a first run in the
\* same environment does, whatever runs went before it.
C11_RunsIndependent ==
    /\ SAMPLE_TASKS = List(SampleTasks)
    /\ pc = "ref_client" =>
          get_client(client, apiKey).raised
              = get_client(FreshProcessClient, apiKey).raised

(***************************************************************************)
(* C12  missing configuration is a distinguishable failure, in every run.  *)
(***************************************************************************)
MissingConfigErrors == {"RuntimeError", "ValueError"}

ParseFailureError == "JSONDecodeError"

\* a step taken where a collaborator's client is about to be obtained while
\* the API key is absent
C12_Step ==
    (pc \in {"norm_client", "ref_client"} /\ ~apiKey) =>
        /\ pc' = "failed"
        /\ error' \in MissingConfigErrors
        /\ error' # ParseFailureError
        /\ normCalls' = normCalls
        /\ refinerCalls' = refinerCalls
        /\ result' = None

\* C12: in every run, first or later, when a collaborator (Normalizer or
\* Refiner) is about to be called while the API key is absent, the run fails
\* with a missing-configuration error that is not the parse-failure error,
\* the collaborator is not called, and no plan is returned: the run never
\* passes from that point to the collaborator's request.
C12_MissingConfigFails == [][C12_Step]_vars

====
